---- MODULE Spec2Model ----
(***************************************************************************)
(* Model of the IPTV playlist analyzer (playlist_analyzer.py).             *)
(*                                                                         *)
(* Python dicts are TLA+ functions from key strings to values, so that a   *)
(* key's presence is DOMAIN membership and {**a, **b} is b @@ a.           *)
(* Times are integers: an elapsed time is given in milliseconds and a      *)
(* 'response_time' is held in hundredths of a second (round(x, 2));        *)
(* 'health_percentage' is held in tenths of a percent (round(x, 1)).       *)
(***************************************************************************)
EXTENDS Integers, Sequences, FiniteSets, TLC

VARIABLES
    channels,          \* self.channels
    total_channels,    \* self.total_channels
    working_channels,  \* self.working_channels
    dead_channels,     \* self.dead_channels
    checked_channels,  \* self.checked_channels
    call,              \* the latest check_all_links call: idle, running, returned, raised
    max_concurrent,    \* the argument of the latest check_all_links call
    semaphore,         \* the value of the asyncio.Semaphore of that call
    tasks,             \* the check_with_limit tasks of that call, in launch order
    ret,               \* what the latest completed call returned
    ap_pc,             \* analyze_playlist's position
    check_links,       \* analyze_playlist's check_links argument
    probe_in,          \* a single check_link call: its arguments and the request's outcome
    probe_out,         \* a single check_link call: how it ended
    parse_in,          \* a single parse_m3u call on a fresh analyzer: its content argument
    temp_file,         \* api.py: the content of temp.m3u, or NoFile
    requests           \* api.py: the /analyze requests being handled

analyzer_vars == <<channels, total_channels, working_channels, dead_channels, checked_channels>>
call_vars == <<call, max_concurrent, semaphore, tasks>>
ap_vars == <<ap_pc, check_links>>
probe_vars == <<probe_in, probe_out>>
api_vars == <<temp_file, requests>>
vars == <<analyzer_vars, call_vars, ret, ap_vars, probe_vars, parse_in, api_vars>>

---------------------------------------------------------------------------
(* Bounds of the model. *)

MaxChannels == 2
MaxLines == 2
MaxLimit == 2

(* Program constants. *)

DefaultTimeout == 5
DefaultMaxConcurrent == 20
ErrorTextLimit == 50
ChannelsSampleLimit == 10
DeadSampleLimit == 10
UrlLimit == 60

---------------------------------------------------------------------------
(* Helpers. *)

Min(a, b) == IF a <= b THEN a ELSE b

\* A slice that keeps the whole string.
whole_string(s, n) == s

\* s[:n]
Prefix(s, n) == SubSeq(s, 1, Min(n, Len(s)))

\* d.get(k, default)
Get(d, k, default) == IF k \in DOMAIN d THEN d[k] ELSE default

\* {**a, **b}
MergeDicts(a, b) == b @@ a

\* round(num / den, ...) to the nearest integer, a tie going to the even one
\* (num >= 0, den > 0).
RoundHalfEven(num, den) ==
    LET q == num \div den
        r == num % den
    IN  IF 2 * r < den THEN q
        ELSE IF 2 * r > den THEN q + 1
        ELSE IF q % 2 = 0 THEN q ELSE q + 1

---------------------------------------------------------------------------
(* check_link: one probe.  The outcome of the HEAD request is an input:    *)
(* a response with a status after elapsed_ms milliseconds, or a raised     *)
(* exception of some class with a message.                                 *)

Statuses == {200, 204, 301, 302, 401, 403, 404, 500, 503}
ElapsedMs == {0, 42, 1234}
LongMessage == "Cannot connect to host dead-link-example-12345.com:80 ssl:default"
Messages == {"", "Invalid URL", LongMessage}

\* Classes caught by 'except Exception' (asyncio.TimeoutError among them).
ExceptionClasses == {"TimeoutError", "ClientConnectorError", "InvalidURL", "ValueError"}
\* Classes that derive from BaseException only, which no handler of check_link catches.
BaseExceptionClasses == {"CancelledError"}

Response(s, ms) == [type |-> "response", status |-> s, elapsed_ms |-> ms]
Raise(c, m) == [type |-> "raise", exc |-> c, msg |-> m]

Responses == {Response(s, ms) : s \in Statuses, ms \in ElapsedMs}
\* Every way the request of one probe can end short of a BaseException.
HttpOutcomes ==
    Responses \cup {Raise("TimeoutError", "")}
              \cup {Raise(c, m) : c \in ExceptionClasses \ {"TimeoutError"}, m \in Messages}
AllOutcomes == HttpOutcomes \cup {Raise(c, "") : c \in BaseExceptionClasses}

WorkingStatuses == {200, 301, 302, 403}

\* Every status below 400 taken as alive, and 403 as dead.
is_working_below_400(status) == status < 400

is_working(status) == status \in WorkingStatuses

Returned(d) == [raised |-> FALSE, result |-> d]
Propagated(c) == [raised |-> TRUE, exc |-> c]

\* check_link without its 'except Exception' handler.
check_link_timeout_only(url, outcome, timeout) ==
    IF outcome.type = "response"
    THEN Returned([url |-> url,
                   working |-> is_working(outcome.status),
                   status_code |-> outcome.status,
                   response_time |-> RoundHalfEven(outcome.elapsed_ms, 10)])
    ELSE IF outcome.exc = "TimeoutError"
    THEN Returned([url |-> url,
                   working |-> FALSE,
                   status_code |-> 0,
                   error |-> "Timeout",
                   response_time |-> timeout * 100])
    ELSE Propagated(outcome.exc)

check_link(url, outcome, timeout) ==
    IF outcome.type = "response"
    THEN Returned([url |-> url,
                   working |-> is_working(outcome.status),
                   status_code |-> outcome.status,
                   response_time |-> RoundHalfEven(outcome.elapsed_ms, 10)])
    ELSE IF outcome.exc = "TimeoutError"
    THEN Returned([url |-> url,
                   working |-> FALSE,
                   status_code |-> 0,
                   error |-> "Timeout",
                   response_time |-> timeout * 100])
    ELSE IF outcome.exc \in ExceptionClasses
    THEN Returned([url |-> url,
                   working |-> FALSE,
                   status_code |-> 0,
                   error |-> Prefix(outcome.msg, ErrorTextLimit),
                   response_time |-> 0])
    ELSE Propagated(outcome.exc)

---------------------------------------------------------------------------
(* parse_m3u.  A playlist is a sequence of lines, each already stripped    *)
(* and classified by the tests parse_m3u applies to it:                    *)
(*   skip    an empty line or the #EXTM3U header                           *)
(*   extinf  a line starting with #EXTINF:, with the number of parts that  *)
(*           info.split(',', 1) yields, the name after the comma and the   *)
(*           key="value" attributes before it                              *)
(*   url     a line starting with http:// or https://                      *)
(*   other   any other line                                                *)

EmptyDict == <<>>

SkipLine == [kind |-> "skip"]
OtherLine == [kind |-> "other"]
ExtInf(name, attrs) == [kind |-> "extinf", parts |-> 2, name |-> name, attributes |-> attrs]
ExtInfNoComma == [kind |-> "extinf", parts |-> 1]
UrlLine(u) == [kind |-> "url", url |-> u]

\* What parsing one line does to (current_channel, channels).
parse_line(line, st) ==
    IF line.kind = "skip" THEN st
    ELSE IF line.kind = "extinf"
    THEN IF line.parts = 2
         THEN [st EXCEPT !.current_channel =
                  [name |-> line.name,
                   group |-> Get(line.attributes, "group-title", "Uncategorized"),
                   logo |-> Get(line.attributes, "tvg-logo", ""),
                   attributes |-> line.attributes]]
         ELSE st
    ELSE IF line.kind = "url"
    THEN IF st.current_channel # EmptyDict
         THEN [current_channel |-> EmptyDict,
               channels |-> Append(st.channels,
                                   MergeDicts(st.current_channel, [url |-> line.url]))]
         ELSE st
    ELSE st

RECURSIVE parse_lines(_, _)
parse_lines(lines, st) ==
    IF lines = <<>> THEN st
    ELSE parse_lines(Tail(lines), parse_line(Head(lines), st))

\* self.channels after parse_m3u(content = lines) on an analyzer holding chs.
parsed_channels(chs, lines) ==
    parse_lines(lines, [current_channel |-> EmptyDict, channels |-> chs]).channels

---------------------------------------------------------------------------
(* get_basic_stats and get_detailed_report. *)

RECURSIVE count_groups(_, _)
\* The categories dict as a sequence of [group, count] in insertion order.
count_groups(chs, cats) ==
    IF chs = <<>> THEN cats
    ELSE LET g == Get(Head(chs), "group", "Uncategorized")
             at == {i \in 1..Len(cats) : cats[i].group = g}
         IN  count_groups(Tail(chs),
                 IF at = {}
                 THEN Append(cats, [group |-> g, count |-> 1])
                 ELSE [i \in 1..Len(cats) |->
                          IF i \in at THEN [cats[i] EXCEPT !.count = @ + 1] ELSE cats[i]])

RECURSIVE insert_sorted(_, _)
\* x placed after every entry whose count is at least x's: a stable descending sort.
insert_sorted(sorted, x) ==
    IF sorted = <<>> THEN <<x>>
    ELSE IF Head(sorted).count >= x.count
         THEN <<Head(sorted)>> \o insert_sorted(Tail(sorted), x)
         ELSE <<x>> \o sorted

RECURSIVE sort_by_count(_, _)
sort_by_count(cats, acc) ==
    IF cats = <<>> THEN acc
    ELSE sort_by_count(Tail(cats), insert_sorted(acc, Head(cats)))

get_basic_stats(chs, total) ==
    LET sorted_categories == sort_by_count(count_groups(chs, <<>>), <<>>)
    IN  [total_channels |-> total,
         categories |-> sorted_categories,
         top_5_categories |-> Prefix(sorted_categories, 5)]

\* An empty playlist reported as fully healthy.
health_percentage_empty_is_100(working, total) ==
    IF total > 0 THEN RoundHalfEven(working * 1000, total) ELSE 1000

\* In tenths of a percent.
health_percentage(working, total) ==
    IF total > 0 THEN RoundHalfEven(working * 1000, total) ELSE 0

truncate_url(u) == IF Len(u) > UrlLimit THEN SubSeq(u, 1, UrlLimit) \o "..." ELSE u

dead_entry(ch) ==
    [name |-> ch.name, url |-> truncate_url(ch.url), error |-> Get(ch, "error", "No response")]

\* A dead list that takes every checked channel.
dead_list_of_all(checked) == [i \in 1..Len(checked) |-> dead_entry(checked[i])]

dead_list(checked) ==
    LET dead == SelectSeq(checked, LAMBDA ch : ~Get(ch, "working", FALSE))
    IN  [i \in 1..Len(dead) |-> dead_entry(dead[i])]

\* A report that carries a dead list whether or not links were checked.
get_detailed_report_always_listing(chs, total, working, dead, checked) ==
    LET stats == get_basic_stats(chs, total)
    IN  [summary |-> [total_channels |-> stats.total_channels,
                      total_categories |-> Len(stats.categories),
                      working_channels |-> working,
                      dead_channels |-> dead,
                      health_percentage |-> health_percentage(working, total),
                      checked |-> Len(checked) > 0],
         categories |-> stats.categories,
         channels_sample |-> Prefix(chs, ChannelsSampleLimit),
         dead_channels_list |-> Prefix(dead_list(checked), DeadSampleLimit)]

get_detailed_report(chs, total, working, dead, checked) ==
    LET stats == get_basic_stats(chs, total)
        report == [summary |-> [total_channels |-> stats.total_channels,
                                total_categories |-> Len(stats.categories),
                                working_channels |-> working,
                                dead_channels |-> dead,
                                health_percentage |-> health_percentage(working, total),
                                checked |-> Len(checked) > 0],
                   categories |-> stats.categories,
                   channels_sample |-> Prefix(chs, ChannelsSampleLimit)]
    IN  IF checked # <<>>
        THEN MergeDicts(report, [dead_channels_list |-> Prefix(dead_list(checked), DeadSampleLimit)])
        ELSE report

---------------------------------------------------------------------------
(* The calls' return values. *)

NoReturn == [kind |-> "none"]
ReturnError == [kind |-> "error"]
ReturnException == [kind |-> "exception"]
ReturnStats(v) == [kind |-> "stats", value |-> v]
ReturnChecked(v) == [kind |-> "checked", value |-> v]
ReturnReport(v) == [kind |-> "report", value |-> v]

---------------------------------------------------------------------------
(* The inputs. *)

RECURSIVE SeqsUpTo(_, _)
SeqsUpTo(S, n) == IF n = 0 THEN {<<>>} ELSE SeqsUpTo(S, n - 1) \cup [1..n -> S]

Url1 == "http://h.example/1"
Url2 == "https://h.example/live/channel-two/stream-with-a-long-path/index.m3u8"
Urls == {Url1, Url2}

\* The lines of the playlists given to the analyzer.
LineAlphabet ==
    {ExtInf("A", [x \in {"group-title", "tvg-logo"} |->
                     IF x = "group-title" THEN "News" ELSE "a.png"]),
     ExtInf("B", EmptyDict),
     UrlLine(Url1), UrlLine(Url2)}

\* The content arguments of parse_m3u; <<>> is the empty string.
Contents == SeqsUpTo(LineAlphabet, MaxLines)

\* The playlist files: up to MaxChannels entries of two lines.
Files == SeqsUpTo(LineAlphabet, 2 * MaxChannels)

\* The channel lists a fresh analyzer holds after parsing one file.
ChannelLists == {parsed_channels(<<>>, f) : f \in Files}

\* The outcomes the probes of a batch draw from.
TaskOutcomes ==
    {Response(200, 42), Response(404, 42), Raise("TimeoutError", ""), Raise("CancelledError", "")}

\* The max_concurrent arguments.
ConcurrencyLimits == 0..MaxLimit

Timeouts == {1, DefaultTimeout}

---------------------------------------------------------------------------
(* check_all_links: the semaphore, one check_with_limit task per channel,  *)
(* and gather.                                                             *)

\* A semaphore that admits one task more than asked for.
new_semaphore_off_by_one(n) == n + 1

new_semaphore(n) == n

new_task(channel) ==
    [pc |-> "waiting", channel |-> channel, probe |-> EmptyDict, result |-> EmptyDict]

launch_tasks(chs) == [i \in 1..Len(chs) |-> new_task(chs[i])]

\* A semaphore that keeps its last slot back.
can_acquire_keeps_one(value) == value > 1

\* A semaphore that lets a task in at value 0 too.
can_acquire_at_zero(value) == value >= 0

\* 'async with semaphore' lets a task in when the value is positive.
can_acquire(value) == value > 0

\* The body of check_with_limit once the request of its probe ended with outcome.
check_with_limit(task, outcome) ==
    LET r == check_link(task.channel.url, outcome, DefaultTimeout)
    IN  IF r.raised
        THEN [task EXCEPT !.pc = "raised"]
        ELSE [task EXCEPT !.pc = "done",
                          !.probe = r.result,
                          !.result = MergeDicts(task.channel, r.result)]

\* A release that is skipped when the body raised.
released_on_return_only(task) == IF task.pc = "raised" THEN 0 ELSE 1

\* The slots 'async with' gives back when the task that ended as task leaves it.
released_on_exit(task) == 1

Live(ts) == {i \in 1..Len(ts) : ts[i].pc \in {"waiting", "probing"}}
Probing(ts) == {i \in 1..Len(ts) : ts[i].pc = "probing"}
Raised(ts) == {i \in 1..Len(ts) : ts[i].pc = "raised"}

\* A wait that ends with the first task that returned.
gather_first_completed(ts) == \E i \in 1..Len(ts) : ts[i].pc = "done"

\* gather's future has its result once every task returned.
gather_done(ts) == \A i \in 1..Len(ts) : ts[i].pc = "done"

\* gather's future has an exception as soon as one task raised.
gather_failed(ts) == Raised(ts) # {}

\* Results collected in a map keyed by URL: records that share a URL all get the
\* result of the first of them.
gather_by_url(ts) ==
    [i \in 1..Len(ts) |->
        LET first == CHOOSE j \in 1..Len(ts) :
                        /\ ts[j].channel.url = ts[i].channel.url
                        /\ \A k \in 1..(j - 1) : ts[k].channel.url # ts[i].channel.url
        IN  MergeDicts(ts[i].channel, ts[first].probe)]

\* The results in the order of the awaitables.
gather(ts) == [i \in 1..Len(ts) |-> ts[i].result]

count_working(checked) == Len(SelectSeq(checked, LAMBDA ch : Get(ch, "working", FALSE)))

\* A dead count that takes every checked channel.
count_dead_of_all(checked, working) == Len(checked)

count_dead(checked, working) == Len(checked) - working

\* The call up to its await of gather.
StartCheck(n) ==
    /\ call' = "running"
    /\ max_concurrent' = n
    /\ semaphore' = new_semaphore(n)
    /\ tasks' = launch_tasks(channels)
    /\ ret' = NoReturn
    /\ UNCHANGED analyzer_vars

CheckAllLinks(n) ==
    /\ ap_pc = "none"
    /\ call = "idle"
    /\ StartCheck(n)
    /\ UNCHANGED <<ap_vars, probe_vars, parse_in, api_vars>>

Acquire(i) ==
    /\ tasks[i].pc = "waiting"
    /\ can_acquire(semaphore)
    /\ semaphore' = semaphore - 1
    /\ tasks' = [tasks EXCEPT ![i].pc = "probing"]
    /\ UNCHANGED <<analyzer_vars, call, max_concurrent, ret, ap_vars, probe_vars, parse_in, api_vars>>

\* The probe of task i ends: check_link returns or raises, the result is merged
\* and the slot is given back, with no suspension point in between.
Finish(i, outcome) ==
    /\ tasks[i].pc = "probing"
    /\ LET t == check_with_limit(tasks[i], outcome)
       IN  /\ tasks' = [tasks EXCEPT ![i] = t]
           /\ semaphore' = semaphore + released_on_exit(t)
    /\ UNCHANGED <<analyzer_vars, call, max_concurrent, ret, ap_vars, probe_vars, parse_in, api_vars>>

\* gather gave its results: the rest of check_all_links.
GatherReturn ==
    /\ call = "running"
    /\ gather_done(tasks)
    /\ checked_channels' = gather(tasks)
    /\ working_channels' = count_working(checked_channels')
    /\ dead_channels' = count_dead(checked_channels', working_channels')
    /\ call' = "returned"
    /\ ret' = ReturnChecked(checked_channels')
    /\ UNCHANGED <<channels, total_channels, max_concurrent, semaphore, tasks, ap_vars, probe_vars, parse_in, api_vars>>

\* gather raised the first exception of a task: check_all_links propagates it.
\* The other tasks are not cancelled.
GatherRaise ==
    /\ call = "running"
    /\ gather_failed(tasks)
    /\ call' = "raised"
    /\ ret' = ReturnException
    /\ UNCHANGED <<analyzer_vars, max_concurrent, semaphore, tasks, ap_vars, probe_vars, parse_in, api_vars>>

---------------------------------------------------------------------------
(* One check_all_links call, task by task, on an analyzer that parsed a    *)
(* playlist.                                                               *)

NoProbe == [state |-> "none"]
NoParse == [state |-> "none"]
NoFile == [exists |-> FALSE]

\* No parse_m3u call on its own and no request.
NothingElse ==
    /\ parse_in = NoParse
    /\ temp_file = NoFile
    /\ requests = <<>>

FreshAnalyzer ==
    /\ channels = <<>>
    /\ total_channels = 0
    /\ working_channels = 0
    /\ dead_channels = 0
    /\ checked_channels = <<>>
    /\ call = "idle"
    /\ max_concurrent = 0
    /\ semaphore = 0
    /\ tasks = <<>>
    /\ ret = NoReturn

Init ==
    /\ channels \in ChannelLists
    /\ total_channels = Len(channels)
    /\ working_channels = 0
    /\ dead_channels = 0
    /\ checked_channels = <<>>
    /\ call = "idle"
    /\ max_concurrent = 0
    /\ semaphore = 0
    /\ tasks = <<>>
    /\ ret = NoReturn
    /\ ap_pc = "none"
    /\ check_links = FALSE
    /\ probe_in = NoProbe
    /\ probe_out = NoProbe
    /\ NothingElse

Next ==
    \/ \E n \in ConcurrencyLimits : CheckAllLinks(n)
    \/ \E i \in 1..Len(tasks) : Acquire(i)
    \/ \E i \in 1..Len(tasks), outcome \in TaskOutcomes : Finish(i, outcome)
    \/ GatherReturn
    \/ GatherRaise

Spec == Init /\ [][Next]_vars

\* The same call under the event loop's scheduling: a task that can take a slot
\* is resumed, a probe that started ends (check_link bounds it by its timeout),
\* and check_all_links is resumed once gather has its result or its exception.
TaskAcquire(i) == i <= Len(tasks) /\ Acquire(i)
TaskFinish(i) == i <= Len(tasks) /\ \E outcome \in TaskOutcomes : Finish(i, outcome)

Fairness ==
    /\ \A i \in 1..MaxChannels : WF_vars(TaskAcquire(i)) /\ WF_vars(TaskFinish(i))
    /\ WF_vars(GatherReturn)
    /\ WF_vars(GatherRaise)

SpecLive == Init /\ [][Next]_vars /\ Fairness

---------------------------------------------------------------------------
(* parse_m3u and get_detailed_report as calls on the analyzer. *)

DoParse(content) ==
    IF content = <<>>
    THEN /\ ret' = ReturnError
         /\ UNCHANGED analyzer_vars
    ELSE /\ channels' = parsed_channels(channels, content)
         /\ total_channels' = Len(channels')
         /\ ret' = ReturnStats(get_basic_stats(channels', total_channels'))
         /\ UNCHANGED <<working_channels, dead_channels, checked_channels>>

\* A report that hands over the checked entries and leaves none behind.
DoReport_consuming ==
    /\ ret' = ReturnReport(get_detailed_report(channels, total_channels, working_channels,
                                               dead_channels, checked_channels))
    /\ checked_channels' = <<>>
    /\ UNCHANGED <<channels, total_channels, working_channels, dead_channels>>

DoReport ==
    /\ ret' = ReturnReport(get_detailed_report(channels, total_channels, working_channels,
                                               dead_channels, checked_channels))
    /\ UNCHANGED analyzer_vars

ParseM3u(content) ==
    /\ Len(parsed_channels(channels, content)) <= MaxChannels
    /\ DoParse(content)
    /\ UNCHANGED <<call_vars, ap_vars, probe_vars, parse_in, api_vars>>

GetDetailedReport ==
    /\ DoReport
    /\ UNCHANGED <<call_vars, ap_vars, probe_vars, parse_in, api_vars>>

GetBasicStats ==
    /\ ret' = ReturnStats(get_basic_stats(channels, total_channels))
    /\ UNCHANGED <<analyzer_vars, call_vars, ap_vars, probe_vars, parse_in, api_vars>>

\* A whole check_all_links call, from its start to its return or its exception,
\* where the probe of channel i ends with outcomes[i].  Which tasks ran together
\* does not change what the call leaves in the analyzer, so the call is one step
\* here; max_concurrent is any value that lets the tasks run (at least 1).
CheckAllLinksCall(outcomes) ==
    LET ts == [i \in 1..Len(channels) |->
                  check_with_limit([new_task(channels[i]) EXCEPT !.pc = "probing"],
                                   outcomes[i])]
    IN  /\ IF gather_failed(ts)
           THEN /\ call' = "raised"
                /\ ret' = ReturnException
                /\ UNCHANGED analyzer_vars
           ELSE /\ checked_channels' = gather(ts)
                /\ working_channels' = count_working(checked_channels')
                /\ dead_channels' = count_dead(checked_channels', working_channels')
                /\ call' = "returned"
                /\ ret' = ReturnChecked(checked_channels')
                /\ UNCHANGED <<channels, total_channels>>
        /\ UNCHANGED <<max_concurrent, semaphore, tasks, ap_vars, probe_vars, parse_in, api_vars>>

---------------------------------------------------------------------------
(* The analyzer used freely: any sequence of completed parse_m3u,          *)
(* check_all_links, get_basic_stats and get_detailed_report calls on one   *)
(* PlaylistAnalyzer.                                                       *)

InitAnalyzer ==
    /\ FreshAnalyzer
    /\ ap_pc = "none"
    /\ check_links = FALSE
    /\ probe_in = NoProbe
    /\ probe_out = NoProbe
    /\ NothingElse

NextAnalyzer ==
    \/ \E content \in Contents : ParseM3u(content)
    \/ \E outcomes \in [1..Len(channels) -> TaskOutcomes] : CheckAllLinksCall(outcomes)
    \/ GetDetailedReport
    \/ GetBasicStats

SpecAnalyzer == InitAnalyzer /\ [][NextAnalyzer]_vars

---------------------------------------------------------------------------
(* analyze_playlist(file_path, check_links): a fresh analyzer parses the   *)
(* file, checks the links when asked to and when there are channels, and   *)
(* reports.                                                                *)

\* A check that ignores the check_links argument.
should_check_ignoring_flag(flag, total) == total > 0

should_check(flag, total) == flag /\ total > 0

AnalyzeParse(file) ==
    /\ DoParse(file)
    /\ ap_pc' = "parsed"
    /\ UNCHANGED <<call_vars, check_links, probe_vars, parse_in, api_vars>>

AnalyzeCheck ==
    /\ ap_pc = "parsed"
    /\ should_check(check_links, total_channels)
    /\ StartCheck(DefaultMaxConcurrent)
    /\ ap_pc' = "checking"
    /\ UNCHANGED <<check_links, probe_vars, parse_in, api_vars>>

AnalyzeReport ==
    /\ \/ ap_pc = "parsed" /\ ~should_check(check_links, total_channels)
       \/ ap_pc = "checking" /\ call = "returned"
    /\ DoReport
    /\ ap_pc' = "done"
    /\ UNCHANGED <<call_vars, check_links, probe_vars, parse_in, api_vars>>

\* The exception of check_all_links leaves analyze_playlist.
AnalyzeRaise ==
    /\ ap_pc = "checking"
    /\ call = "raised"
    /\ ap_pc' = "raised"
    /\ UNCHANGED <<analyzer_vars, call_vars, ret, check_links, probe_vars, parse_in, api_vars>>

InitAnalyze ==
    /\ FreshAnalyzer
    /\ ap_pc = "start"
    /\ check_links \in BOOLEAN
    /\ probe_in = NoProbe
    /\ probe_out = NoProbe
    /\ NothingElse

NextAnalyze ==
    \/ ap_pc = "start" /\ \E file \in Files : AnalyzeParse(file)
    \/ AnalyzeCheck
    \/ \E i \in 1..Len(tasks) : Acquire(i)
    \/ \E i \in 1..Len(tasks), outcome \in TaskOutcomes : Finish(i, outcome)
    \/ GatherReturn
    \/ GatherRaise
    \/ AnalyzeReport
    \/ AnalyzeRaise

SpecAnalyze == InitAnalyze /\ [][NextAnalyze]_vars

---------------------------------------------------------------------------
(* One check_link call on its own: the URL, the timeout and the way the    *)
(* request ends are drawn at the start.                                    *)

ProbeCall(u, o, t) == [state |-> "called", url |-> u, outcome |-> o, timeout |-> t]

CheckLink ==
    /\ probe_in # NoProbe
    /\ probe_out = NoProbe
    /\ probe_out' = check_link(probe_in.url, probe_in.outcome, probe_in.timeout)
    /\ UNCHANGED <<analyzer_vars, call_vars, ret, ap_vars, probe_in, parse_in, api_vars>>

InitProbe ==
    /\ FreshAnalyzer
    /\ ap_pc = "none"
    /\ check_links = FALSE
    /\ probe_in \in {ProbeCall(u, o, t) : u \in Urls, o \in AllOutcomes, t \in Timeouts}
    /\ probe_out = NoProbe
    /\ NothingElse

NextProbe == CheckLink

SpecProbe == InitProbe /\ [][NextProbe]_vars

---------------------------------------------------------------------------
(* api.py: the /analyze handler.  Every request saves its upload under the *)
(* one name temp.m3u, analyses that file with check_links = True, removes  *)
(* it and answers with the report.  A request's position is one of         *)
(*   received, rejected (400: no 'playlist' file), saved, analysed,        *)
(*   done (200), failed (an exception left the handler).                   *)

NoUpload == [has_file |-> FALSE]
Upload(content) == [has_file |-> TRUE, content |-> content]
FileWith(content) == [exists |-> TRUE, content |-> content]

\* analyze_playlist_sync(path, check_links) on a file that holds content, where
\* the probe of channel i ends with outcomes[i]: the report, or the exception
\* that check_all_links let through.
analyze_playlist_sync(content, flag, outcomes) ==
    LET chs == IF content = <<>> THEN <<>> ELSE parsed_channels(<<>>, content)
        total == Len(chs)
        ts == [i \in 1..Len(chs) |->
                  check_with_limit([new_task(chs[i]) EXCEPT !.pc = "probing"], outcomes[i])]
        checked == gather(ts)
        working == count_working(checked)
    IN  IF ~should_check(flag, total)
        THEN ReturnReport(get_detailed_report(chs, total, 0, 0, <<>>))
        ELSE IF gather_failed(ts)
        THEN ReturnException
        ELSE ReturnReport(get_detailed_report(chs, total, working,
                                              count_dead(checked, working), checked))

new_request(upload) ==
    [pc |-> "received", upload |-> upload, read |-> NoFile, error |-> "none",
     response |-> NoReturn]

\* 'playlist' not in request.files: 400.
Reject(r) ==
    /\ requests[r].pc = "received"
    /\ ~requests[r].upload.has_file
    /\ requests' = [requests EXCEPT ![r].pc = "rejected"]
    /\ UNCHANGED <<analyzer_vars, call_vars, ret, ap_vars, probe_vars, parse_in, temp_file>>

\* file.save('temp.m3u')
Save(r) ==
    /\ requests[r].pc = "received"
    /\ requests[r].upload.has_file
    /\ temp_file' = FileWith(requests[r].upload.content)
    /\ requests' = [requests EXCEPT ![r].pc = "saved"]
    /\ UNCHANGED <<analyzer_vars, call_vars, ret, ap_vars, probe_vars, parse_in>>

\* analyze_playlist_sync('temp.m3u', check_links=True): the file is read when the
\* analysis starts and the rest works on what was read.
Analyse(r, outcomes) ==
    /\ requests[r].pc = "saved"
    /\ requests' =
          IF ~temp_file.exists
          THEN [requests EXCEPT ![r].pc = "failed", ![r].error = "FileNotFoundError"]
          ELSE LET res == analyze_playlist_sync(temp_file.content, TRUE, outcomes)
               IN  IF res.kind = "exception"
                   THEN [requests EXCEPT ![r].pc = "failed",
                                         ![r].read = temp_file,
                                         ![r].error = "TaskException"]
                   ELSE [requests EXCEPT ![r].pc = "analysed",
                                         ![r].read = temp_file,
                                         ![r].response = res]
    /\ UNCHANGED <<analyzer_vars, call_vars, ret, ap_vars, probe_vars, parse_in, temp_file>>

\* os.remove('temp.m3u'); return jsonify(report)
Remove(r) ==
    /\ requests[r].pc = "analysed"
    /\ IF temp_file.exists
       THEN /\ temp_file' = NoFile
            /\ requests' = [requests EXCEPT ![r].pc = "done"]
       ELSE /\ temp_file' = temp_file
            /\ requests' = [requests EXCEPT ![r].pc = "failed",
                                            ![r].error = "FileNotFoundError"]
    /\ UNCHANGED <<analyzer_vars, call_vars, ret, ap_vars, probe_vars, parse_in>>

\* The uploads of a request: no file, or a playlist.
Uploads == {NoUpload} \cup {Upload(c) : c \in Contents}

Finished(r) == requests[r].pc \in {"rejected", "done", "failed"}

InitApiWith(n) ==
    /\ FreshAnalyzer
    /\ ap_pc = "none"
    /\ check_links = FALSE
    /\ probe_in = NoProbe
    /\ probe_out = NoProbe
    /\ parse_in = NoParse
    /\ temp_file = NoFile
    /\ requests \in [1..n -> {new_request(u) : u \in Uploads}]

NextApi ==
    \/ \E r \in 1..Len(requests) : Reject(r)
    \/ \E r \in 1..Len(requests) : Save(r)
    \/ \E r \in 1..Len(requests), outcomes \in [1..MaxChannels -> TaskOutcomes] :
          Analyse(r, outcomes)
    \/ \E r \in 1..Len(requests) : Remove(r)

\* Two requests handled at the same time.
InitApi == InitApiWith(2)

SpecApi == InitApi /\ [][NextApi]_vars

\* One request at a time, each of them on a server with no temp.m3u left over.
InitApiOne == InitApiWith(1)

SpecApiOne == InitApiOne /\ [][NextApi]_vars

---------------------------------------------------------------------------
(* get_detailed_report after one check_all_links call on playlists long    *)
(* enough for the report's samples to be cut.                              *)

MaxChecked == DeadSampleLimit + 1

\* A URL of exactly UrlLimit characters.
Url60 == "http://h.example/live/xxxxxxxxxxxxxxxxxxxxxxxxxxxxxxxxxxxxxx"

ReportUrl(i) == IF i % 3 = 1 THEN Url2 ELSE IF i % 3 = 2 THEN Url60 ELSE Url1

\* The channels parse_m3u leaves for a playlist of n entries.
ReportChannels(n) ==
    [i \in 1..n |->
        [name |-> "ch" \o ToString(i), group |-> "Uncategorized", logo |-> "",
         attributes |-> EmptyDict, url |-> ReportUrl(i)]]

\* The ways the probe of channel i ends: a working answer, or a failure whose
\* kind (timeout, connection error with a long text, 404) goes by position.
DeadOutcome(i) ==
    IF i % 3 = 1 THEN Raise("TimeoutError", "")
    ELSE IF i % 3 = 2 THEN Response(404, 42)
    ELSE Raise("ClientConnectorError", LongMessage)

ReportOutcomes(n) ==
    {[i \in 1..n |-> IF i \in alive THEN Response(200, 42) ELSE DeadOutcome(i)] :
        alive \in SUBSET (1..n)}

ReportCheck(outcomes) ==
    /\ call = "idle"
    /\ CheckAllLinksCall(outcomes)

InitReport ==
    /\ \E n \in 0..MaxChecked : channels = ReportChannels(n)
    /\ total_channels = Len(channels)
    /\ working_channels = 0
    /\ dead_channels = 0
    /\ checked_channels = <<>>
    /\ call = "idle"
    /\ max_concurrent = 0
    /\ semaphore = 0
    /\ tasks = <<>>
    /\ ret = NoReturn
    /\ ap_pc = "none"
    /\ check_links = FALSE
    /\ probe_in = NoProbe
    /\ probe_out = NoProbe
    /\ NothingElse

NextReport ==
    \/ call = "idle" /\ \E outcomes \in ReportOutcomes(Len(channels)) : ReportCheck(outcomes)
    \/ GetDetailedReport

SpecReport == InitReport /\ [][NextReport]_vars

---------------------------------------------------------------------------
(* parse_m3u on its own: one call on a fresh analyzer, over contents made  *)
(* of every kind of line the loop tells apart.                             *)

ParseAlphabet == LineAlphabet \cup {SkipLine, OtherLine, ExtInfNoComma}
ParseContents == SeqsUpTo(ParseAlphabet, MaxLines + 1)

GivenContent(lines) == [state |-> "given", lines |-> lines]
ParsedContent(lines) == [state |-> "parsed", lines |-> lines]

ParseContent ==
    /\ parse_in.state = "given"
    /\ DoParse(parse_in.lines)
    /\ parse_in' = ParsedContent(parse_in.lines)
    /\ UNCHANGED <<call_vars, ap_vars, probe_vars, api_vars>>

InitParse ==
    /\ FreshAnalyzer
    /\ ap_pc = "none"
    /\ check_links = FALSE
    /\ probe_in = NoProbe
    /\ probe_out = NoProbe
    /\ temp_file = NoFile
    /\ requests = <<>>
    /\ parse_in \in {GivenContent(lines) : lines \in ParseContents}

NextParse == ParseContent

SpecParse == InitParse /\ [][NextParse]_vars

---------------------------------------------------------------------------
(* Claims about one check_all_links call (Spec). *)

Waiting(ts) == {i \in 1..Len(ts) : ts[i].pc = "waiting"}

\* C1: during check_all_links(max_concurrent = N), under every interleaving
\* of the probe tasks, at most N tasks are inside check_link (slot acquired,
\* not yet released), however many channels there are.
C1_AtMostMaxConcurrentInFlight ==
    Cardinality(Probing(tasks)) <= max_concurrent

\* The limit is reached while another task waits for a slot.
C1_Witness ==
    /\ call = "running"
    /\ max_concurrent >= 1
    /\ Cardinality(Probing(tasks)) = max_concurrent
    /\ Waiting(tasks) # {}

\* C2: check_all_links returns exactly one checked entry per input record,
\* also when records share a URL: the output is as long as the input, and
\* entry i carries the name, group and logo of record i together with the
\* result of the probe launched for record i.
C2_OneEntryPerRecord ==
    call = "returned" =>
        /\ ret = ReturnChecked(checked_channels)
        /\ Len(checked_channels) = Len(channels)
        /\ \A i \in 1..Len(channels) :
              /\ \A k \in {"name", "group", "logo"} :
                    checked_channels[i][k] = channels[i][k]
              /\ tasks[i].channel = channels[i]
              /\ \A k \in DOMAIN tasks[i].probe :
                    checked_channels[i][k] = tasks[i].probe[k]
              /\ DOMAIN checked_channels[i] = DOMAIN channels[i] \cup DOMAIN tasks[i].probe

\* Two records with the same URL and different names got different results.
C2_Witness ==
    /\ call = "returned"
    /\ Len(channels) >= 2
    /\ channels[1].url = channels[2].url
    /\ channels[1].name # channels[2].name
    /\ checked_channels[1].working # checked_channels[2].working

\* C3: a probe task that raises instead of returning a result does not abort
\* the batch: check_all_links never ends by propagating a task's exception.
C3_BatchNotAborted ==
    call # "raised"

\* C4: check_all_links returns, and sets checked_channels and the counters,
\* only after every launched task has completed: no task is waiting for a
\* slot or probing once the call has returned or the fields are set.
C4_ReturnsAfterAllTasks ==
    /\ call = "returned" =>
          /\ Live(tasks) = {}
          /\ \A i \in 1..Len(tasks) : tasks[i].pc = "done"
    /\ (checked_channels # <<>> \/ working_channels # 0 \/ dead_channels # 0) =>
          call = "returned"

\* The call returned for a batch of several tasks.
C4_Witness ==
    /\ call = "returned"
    /\ Len(tasks) >= 2
    /\ checked_channels # <<>>

\* C5: no slot leaks: the held slots are exactly the tasks inside the guarded
\* section, only a task that holds a slot is or was in check_link, and once
\* all tasks have finished all max_concurrent slots are free again.
C5_NoSlotLeak ==
    /\ semaphore >= 0
    /\ max_concurrent - semaphore = Cardinality(Probing(tasks))
    /\ Live(tasks) = {} => semaphore = max_concurrent

\* Every task has finished, one by raising and one by returning a failed result.
C5_Witness ==
    /\ call # "idle"
    /\ Live(tasks) = {}
    /\ Raised(tasks) # {}
    /\ \E i \in 1..Len(tasks) : tasks[i].pc = "done" /\ ~tasks[i].result.working
    /\ semaphore = max_concurrent


---------------------------------------------------------------------------
(* Claims about check_link (SpecProbe). *)

\* C6: check_link is total: whatever the outcome of the HTTP request (a
\* response with any status, a timeout, any other exception), it returns a
\* result with 'url', 'working', 'status_code' and 'response_time' and
\* propagates nothing to its caller.
C6_CheckLinkTotal ==
    (probe_out # NoProbe /\ probe_in.outcome \in HttpOutcomes) =>
        /\ ~probe_out.raised
        /\ {"url", "working", "status_code", "response_time"} \subseteq DOMAIN probe_out.result
        /\ probe_out.result.url = probe_in.url
        /\ probe_out.result.working \in BOOLEAN

\* The request failed with an exception other than a timeout and a result came back.
C6_Witness ==
    /\ probe_out # NoProbe
    /\ probe_in.outcome = Raise("InvalidURL", "Invalid URL")
    /\ ~probe_out.raised
    /\ ~probe_out.result.working

\* C9: when a response is obtained, working is true if and only if its status
\* is one of 200, 301, 302, 403, and status_code is the response's status.
C9_WorkingStatuses ==
    (probe_out # NoProbe /\ probe_in.outcome.type = "response") =>
        /\ ~probe_out.raised
        /\ probe_out.result.working <=> probe_in.outcome.status \in {200, 301, 302, 403}
        /\ probe_out.result.status_code = probe_in.outcome.status

\* A 403 response was classified as working.
C9_Witness ==
    /\ probe_out # NoProbe
    /\ probe_in.outcome.type = "response"
    /\ probe_in.outcome.status = 403
    /\ probe_out.result.working

\* C15: on a timeout check_link returns working = false, status_code = 0,
\* error = 'Timeout' and response_time equal to the timeout (in hundredths of
\* a second here); on every other failure of the request it returns
\* working = false, status_code = 0, response_time = 0 and the first 50
\* characters of the exception's text as error.
C15_FailureResults ==
    (probe_out # NoProbe /\ probe_in.outcome.type = "raise"
        /\ probe_in.outcome.exc \in {"TimeoutError", "ClientConnectorError", "InvalidURL", "ValueError"}) =>
        /\ ~probe_out.raised
        /\ ~probe_out.result.working
        /\ probe_out.result.status_code = 0
        /\ IF probe_in.outcome.exc = "TimeoutError"
           THEN /\ probe_out.result.error = "Timeout"
                /\ probe_out.result.response_time = 100 * probe_in.timeout
           ELSE /\ probe_out.result.response_time = 0
                /\ Len(probe_out.result.error) <= 50
                /\ \E rest \in {"", SubSeq(probe_in.outcome.msg, 51, Len(probe_in.outcome.msg))} :
                      probe_in.outcome.msg = probe_out.result.error \o rest

\* A connection error with a text of more than 50 characters was cut to 50.
C15_Witness ==
    /\ probe_out # NoProbe
    /\ probe_in.outcome = Raise("ClientConnectorError", LongMessage)
    /\ Len(LongMessage) > 50
    /\ ~probe_out.raised
    /\ Len(probe_out.result.error) = 50

---------------------------------------------------------------------------
(* Claims about the reports (SpecAnalyzer). *)

IsReport == ret.kind = "report"
Summary == ret.value.summary

\* C7: in every report whose summary.checked is true, working_channels +
\* dead_channels = total_channels, after any sequence of parse_m3u,
\* check_all_links and get_detailed_report calls.
C7_CountsAddUpToTotal ==
    (IsReport /\ Summary.checked) =>
        Summary.working_channels + Summary.dead_channels = Summary.total_channels

\* C8 as stated: health_percentage is in [0, 100] and is 0 exactly when
\* total_channels is 0.
C8_HealthZeroIffEmpty ==
    IsReport =>
        /\ Summary.health_percentage \in 0..1000
        /\ Summary.health_percentage = 0 <=> Summary.total_channels = 0

\* C8, amended: health_percentage is in [0, 100], it is 0 whenever
\* total_channels is 0, and it is also 0 whenever no channel is counted as
\* working, however many channels there are.
C8_HealthRange ==
    IsReport =>
        /\ Summary.health_percentage \in 0..1000
        /\ Summary.total_channels = 0 => Summary.health_percentage = 0
        /\ Summary.working_channels = 0 => Summary.health_percentage = 0

\* A report after a check in which no channel of a non-empty playlist was working.
C8_Witness ==
    /\ IsReport
    /\ Summary.checked
    /\ Summary.total_channels > 0
    /\ Summary.working_channels = 0
    /\ Summary.health_percentage = 0

---------------------------------------------------------------------------
(* Claims about analyze_playlist (SpecAnalyze). *)

GroupCount(chs, g) == Cardinality({i \in 1..Len(chs) : chs[i].group = g})

\* C10: with check_links = false the report of analyze_playlist has
\* summary.checked = false and no dead_channels_list key, and still reports
\* total_channels and the category counts of the playlist.
C10_SkippedCheckReport ==
    (ap_pc = "done" /\ ~check_links) =>
        /\ IsReport
        /\ ~Summary.checked
        /\ "dead_channels_list" \notin DOMAIN ret.value
        /\ Summary.total_channels = Len(channels)
        /\ "categories" \in DOMAIN ret.value
        /\ \A i \in 1..Len(channels) :
              \E j \in 1..Len(ret.value.categories) :
                  ret.value.categories[j].group = channels[i].group
        /\ \A j \in 1..Len(ret.value.categories) :
              /\ ret.value.categories[j].count > 0
              /\ ret.value.categories[j].count
                     = GroupCount(channels, ret.value.categories[j].group)

\* A report without link checking of a playlist with channels in two categories.
C10_Witness ==
    /\ ap_pc = "done"
    /\ ~check_links
    /\ IsReport
    /\ Summary.total_channels >= 2
    /\ Len(ret.value.categories) = 2

---------------------------------------------------------------------------
(* Claims about the /analyze handler (SpecApiOne, SpecApi). *)

\* C11: the handler deletes the temporary file regardless of outcome: on
\* every path after file.save (the analysis returned a report, or it raised),
\* temp.m3u no longer exists when the handler finishes.
C11_TempFileDeleted ==
    \A r \in 1..Len(requests) :
        requests[r].pc \in {"done", "failed"} => ~temp_file.exists

\* C18: concurrent requests to /analyze do not interfere: no request analyses
\* another request's playlist, and no request fails because its temporary
\* file was overwritten or removed by another request.
C18_NoInterference ==
    \A r \in 1..Len(requests) :
        /\ requests[r].error # "FileNotFoundError"
        /\ requests[r].read # NoFile
              => requests[r].read = FileWith(requests[r].upload.content)

---------------------------------------------------------------------------
(* Claims about the progress of one check_all_links call (SpecLive). *)

TaskEnded(i) == i <= Len(tasks) /\ tasks[i].pc \in {"done", "raised"}
TaskQueued(i) == i <= Len(tasks) /\ tasks[i].pc = "waiting"

\* C12: for max_concurrent >= 1, under fair scheduling and probes that end,
\* every task that waits for a slot eventually has acquired one and completed,
\* and a running check_all_links eventually returns (a task whose probe did not
\* end in a result but in an exception of the task makes the call end by that
\* exception instead).
C12_EveryTaskCompletes ==
    /\ \A i \in 1..MaxChannels :
          (max_concurrent >= 1 /\ TaskQueued(i)) ~> TaskEnded(i)
    /\ (max_concurrent >= 1 /\ call = "running")
          ~> (call = "returned" \/ Raised(tasks) # {})

\* Two tasks shared one slot and the call returned.
C12_Witness ==
    /\ call = "returned"
    /\ max_concurrent = 1
    /\ Len(tasks) >= 2
    /\ \A i \in 1..Len(tasks) : tasks[i].pc = "done"

---------------------------------------------------------------------------
(* Claims about the analyzer's fields and reports (SpecAnalyzer). *)

\* C13: get_detailed_report is read-only and idempotent: the call leaves
\* channels, checked_channels, total_channels, working_channels and
\* dead_channels unchanged, and a call that directly follows another one
\* returns the identical report.
C13_ReportReadOnlyIdempotent ==
    [][ret'.kind = "report"
          => /\ analyzer_vars' = analyzer_vars
             /\ ret.kind = "report" => ret'.value = ret.value]_vars

\* A report over checked links with a dead channel in it.
C13_Witness ==
    /\ IsReport
    /\ Len(checked_channels) >= 1
    /\ "dead_channels_list" \in DOMAIN ret.value
    /\ Len(ret.value.dead_channels_list) >= 1

---------------------------------------------------------------------------
(* Claims about parse_m3u (SpecParse). *)

\* The lines the loop does not skip (blank lines and the #EXTM3U header are
\* skipped and do not separate a metadata line from its URL line).
IsKept(line) == line.kind # "skip"
KeptLines(lines) == SelectSeq(lines, IsKept)

\* The positions of a well-formed metadata line directly followed by a URL line.
EntryPositions(lines) ==
    {k \in 1..(Len(lines) - 1) :
        /\ lines[k].kind = "extinf"
        /\ lines[k].parts = 2
        /\ lines[k + 1].kind = "url"}

\* C14: parse_m3u emits a channel only for a well-formed #EXTINF: line that is
\* immediately followed by its http(s) URL line: every emitted channel has the
\* name and attributes of such a line and the URL of the line right after it,
\* and there are no more channels than such pairs.
C14_OnlyAdjacentPairsEmitted ==
    parse_in.state = "parsed" =>
        LET lines == KeptLines(parse_in.lines)
        IN  /\ Len(channels) <= Cardinality(EntryPositions(lines))
            /\ \A j \in 1..Len(channels) :
                  \E k \in EntryPositions(lines) :
                      /\ channels[j].name = lines[k].name
                      /\ channels[j].attributes = lines[k].attributes
                      /\ channels[j].url = lines[k + 1].url

---------------------------------------------------------------------------
(* Claims about the dead-channel sample (SpecReport). *)

DeadPositions(checked) == {i \in 1..Len(checked) : ~checked[i].working}

\* The position in checked of its j-th non-working entry.
NthDead(checked, j) ==
    CHOOSE i \in DeadPositions(checked) :
        Cardinality({k \in DeadPositions(checked) : k <= i}) = j

\* C16: when links were checked, dead_channels_list is the first
\* min(10, number of non-working checked channels) non-working entries of
\* checked_channels in their order; each entry's url is the channel's URL when
\* it has at most 60 characters and its first 60 characters followed by '...'
\* otherwise, and its error is the probe's error or 'No response'.
C16_DeadChannelsList ==
    (IsReport /\ checked_channels # <<>>) =>
        LET list == ret.value.dead_channels_list
            dead == DeadPositions(checked_channels)
            n == IF Cardinality(dead) < 10 THEN Cardinality(dead) ELSE 10
        IN  /\ Len(list) = n
            /\ \A j \in 1..n :
                  LET ch == checked_channels[NthDead(checked_channels, j)]
                  IN  /\ list[j].name = ch.name
                      /\ list[j].url = IF Len(ch.url) <= 60
                                       THEN ch.url
                                       ELSE SubSeq(ch.url, 1, 60) \o "..."
                      /\ list[j].error = IF "error" \in DOMAIN ch
                                         THEN ch.error
                                         ELSE "No response"

\* Eleven checked channels, one working among the first ten: the list has ten
\* entries, the second is the third channel, with a cut URL, an uncut URL of
\* 60 characters and a 'No response' among them.
C16_Witness ==
    /\ IsReport
    /\ Len(checked_channels) = 11
    /\ DeadPositions(checked_channels) = (1..11) \ {2}
    /\ Len(ret.value.dead_channels_list) = 10
    /\ ret.value.dead_channels_list[2].name = "ch3"
    /\ ret.value.dead_channels_list[1].url = SubSeq(Url2, 1, 60) \o "..."
    /\ ret.value.dead_channels_list[4].url = Url60
    /\ Len(Url60) = 60
    /\ ret.value.dead_channels_list[4].error = "No response"

---------------------------------------------------------------------------
(* Claims about the report of an analyzer whose links were not checked    *)
(* and about the analyzer's counters (SpecAnalyzer).                       *)

HealthFields == {"working_channels", "dead_channels", "health_percentage"}

\* C17: when the checked collection is empty, the report omits the health
\* fields (working count, dead count, health percentage) entirely as well as
\* the dead-channel list, and summary.checked is false.
C17_HealthFieldsOmitted ==
    (IsReport /\ checked_channels = <<>>) =>
        /\ HealthFields \cap DOMAIN Summary = {}
        /\ "dead_channels_list" \notin DOMAIN ret.value
        /\ ~Summary.checked

\* C17, amended: when the checked collection is empty, the report has no
\* dead_channels_list key and summary.checked is false; the health fields are
\* still in the summary, each of them 0.
C17_UncheckedReport ==
    (IsReport /\ checked_channels = <<>>) =>
        /\ "dead_channels_list" \notin DOMAIN ret.value
        /\ ~Summary.checked
        /\ HealthFields \subseteq DOMAIN Summary
        /\ Summary.working_channels = 0
        /\ Summary.dead_channels = 0
        /\ Summary.health_percentage = 0

\* A report on a parsed playlist whose links were not checked.
C17_Witness ==
    /\ IsReport
    /\ checked_channels = <<>>
    /\ Summary.total_channels >= 1
    /\ ~Summary.checked
    /\ Summary.health_percentage = 0

\* C19: after any sequence of completed parse_m3u, check_all_links,
\* get_basic_stats and get_detailed_report calls, total_channels is the number
\* of channels, working_channels + dead_channels is the number of checked
\* channels, working_channels is between 0 and that number, and there are no
\* more checked channels than channels.
C19_CounterInvariants ==
    /\ total_channels = Len(channels)
    /\ working_channels + dead_channels = Len(checked_channels)
    /\ 0 <= working_channels
    /\ working_channels <= Len(checked_channels)
    /\ Len(checked_channels) <= Len(channels)

\* A second playlist was parsed after a check that found the only channel
\* working, and the statistics were asked for.
C19_Witness ==
    /\ ret.kind = "stats"
    /\ Len(checked_channels) = 1
    /\ working_channels = 1
    /\ dead_channels = 0
    /\ Len(channels) > Len(checked_channels)

---------------------------------------------------------------------------
(* Claims about a check_all_links call with no slot (Spec). *)

\* C20: with max_concurrent = 0 and a non-empty channel list, no task ever
\* acquires a slot, no probe is started or ended, and check_all_links never
\* returns: once started the call stays running with every task waiting.
C20_ZeroSlotsBlockForever ==
    (call # "idle" /\ max_concurrent = 0 /\ Len(tasks) >= 1) =>
        /\ call = "running"
        /\ semaphore = 0
        /\ \A i \in 1..Len(tasks) : tasks[i].pc = "waiting" /\ tasks[i].probe = EmptyDict
        /\ checked_channels = <<>>
        /\ ret = NoReturn

\* A call with max_concurrent = 0 on two channels is under way.
C20_Witness ==
    /\ call = "running"
    /\ max_concurrent = 0
    /\ Len(tasks) = 2
    /\ Len(channels) = 2

====
